---- MODULE Spec2Model ----
(***************************************************************************)
(* Model of the OnlineEmpDemo chat relay (src/server.js, POST /chat) and   *)
(* of the browser chat widget (src/unnamed/part_000, public/app.js).       *)
(*                                                                         *)
(* Text is a sequence of one-character strings, so that String.trim() is   *)
(* computed and not assumed.                                               *)
(***************************************************************************)
EXTENDS Integers, Sequences, FiniteSets, TLC

VARIABLES
    prospects,     \* rows of the "prospects" table, in insertion order
    reqs,          \* POST /chat requests: body, relay position, calls made, response
    chatInput,     \* chatInput.value
    chatHistory,   \* the widget's in-memory transcript
    chatMessages,  \* children of #chat-messages (the visible log)
    calls,         \* activations of sendMessage: closure variables and position
    audios,        \* Audio instances created by playAudio
    currentAudio   \* index into audios, 0 for null

vars == <<prospects, reqs, chatInput, chatHistory, chatMessages, calls, audios, currentAudio>>

widgetVars == <<chatInput, chatHistory, chatMessages, calls, audios, currentAudio>>

----------------------------------------------------------------------------
(* Bounds of the model *)

\* sendMessage activations that pass the empty-input guard
MaxTurns == 2
\* length of the chatHistory array in a request sent by an arbitrary client
MaxHist == 2
\* requests to the landing and admin routes
MaxSite == 3

----------------------------------------------------------------------------
(* Text *)

Str_hi == <<"h", "i">>
Str_y == <<"y">>
Str_ok == <<"o", "k">>
Str_blank == <<" ">>
Str_padded == <<" ", "y", " ">>

IsSpace(c) == c = " "

RECURSIVE TrimStart(_)
TrimStart(s) == IF s # <<>> /\ IsSpace(Head(s)) THEN TrimStart(Tail(s)) ELSE s

RECURSIVE TrimEnd(_)
TrimEnd(s) ==
    IF s # <<>> /\ IsSpace(s[Len(s)]) THEN TrimEnd(SubSeq(s, 1, Len(s) - 1)) ELSE s

\* String.prototype.trim
Trim(s) == TrimEnd(TrimStart(s))

\* what the visitor can type into #chat-input
Inputs == {Str_blank, Str_hi, Str_padded}

----------------------------------------------------------------------------
(* Prospect store *)

Prompt_widgets ==
    <<"Y", "o", "u", " ", "s", "e", "l", "l", " ",
      "w", "i", "d", "g", "e", "t", "s", ".">>

\* the table after one prospect has been created
StoredProspects ==
    << [id |-> 1, name |-> "Acme", system_prompt |-> Prompt_widgets, unique_id |-> "p-123"] >>

\* variant: the WHERE clause is dropped
SelectByUniqueId_NoWhere(table, uid) == table

\* SELECT ... FROM prospects WHERE unique_id = $1
SelectByUniqueId(table, uid) ==
    SelectSeq(table, LAMBDA row : row.unique_id = uid)

----------------------------------------------------------------------------
(* Messages and request bodies *)

Msg(role, content) == [role |-> role, content |-> content]

\* a JSON body of POST /chat; has = the fields present in the body.  historyType
\* is the JSON type of chatHistory: "array", "string" (its characters are kept in
\* chatHistory) or "object"
Body(userMessage, history, prospectId, has) ==
    [userMessage |-> userMessage, chatHistory |-> history,
     prospectId |-> prospectId, has |-> has, historyType |-> "array"]

\* a body whose chatHistory is not an array
NonArrayBody(userMessage, history, prospectId, type) ==
    [Body(userMessage, history, prospectId, {"userMessage", "chatHistory", "prospectId"})
        EXCEPT !.historyType = type]

\* variant: only a missing field is rejected, an empty string is let through
Falsy_OnlyUndefined(body) == "prospectId" \notin body.has

\* JavaScript !prospectId after destructuring req.body
Falsy(body) == "prospectId" \notin body.has \/ body.prospectId = ""

NoResponse == [status |-> 0, error |-> "", textResponse |-> <<>>, audioData |-> <<>>]

ErrorResponse(status, error) ==
    [status |-> status, error |-> error, textResponse |-> <<>>, audioData |-> <<>>]

\* `data:audio/mpeg;base64,${audioData}`
DataUri(bytes) == <<"data:audio/mpeg;base64", bytes>>

OkResponse(text, bytes) ==
    [status |-> 200, error |-> "", textResponse |-> text, audioData |-> DataUri(bytes)]

NewReq(origin, body) ==
    [origin |-> origin, body |-> body, pc |-> "sent",
     storeCalls |-> 0, llmCalls |-> 0, ttsCalls |-> 0,
     storeResult |-> "none", llmResult |-> "none", ttsResult |-> "none",
     responses |-> 0,
     llmPayload |-> <<>>, llmData |-> <<>>, textResponse |-> <<>>, ttsInput |-> <<>>,
     response |-> NoResponse]

----------------------------------------------------------------------------
(* Initial state: the table holds one prospect and its landing page, with  *)
(* the widget, has just been loaded.                                        *)

\* chatWidget.dataset.prospectId, embedded by views/demo.ejs
prospectId == "p-123"

\* the static greeting of views/demo.ejs
Greeting ==
    [sender |-> "ai", text |-> <<"H", "e", "l", "l", "o", "!">>, loading |-> FALSE,
     audioData |-> <<>>, owner |-> 0]

Init ==
    /\ prospects = StoredProspects
    /\ reqs = <<>>
    /\ chatInput = <<>>
    /\ chatHistory = <<>>
    /\ chatMessages = <<Greeting>>
    /\ calls = <<>>
    /\ audios = <<>>
    /\ currentAudio = 0

----------------------------------------------------------------------------
(* Chat relay: app.post('/chat') *)

\* res.status(400).json / res.status(404).json / res.status(500).json / res.json
Respond(i, resp, settled) ==
    reqs' = [reqs EXCEPT ![i].pc = "responded", ![i].response = resp,
                         ![i].responses = @ + 1,
                         ![i].storeResult = IF settled.step = "store" THEN settled.how ELSE @,
                         ![i].llmResult = IF settled.step = "llm" THEN settled.how ELSE @,
                         ![i].ttsResult = IF settled.step = "tts" THEN settled.how ELSE @]

\* which awaited call settled in this step of the handler, and how
Settled(step, how) == [step |-> step, how |-> how]

\* the catch block of the handler
CatchResponse == ErrorResponse(500, "Failed to get AI response")

\* variant: every value that is present is taken to be iterable
Iterable_IfPresent(body) == "chatHistory" \in body.has

\* [...chatHistory] throws unless chatHistory is iterable: an array or a string
Iterable(body) == "chatHistory" \in body.has /\ body.historyType \in {"array", "string"}

\* variant: the new visitor message is placed before the prior transcript
LlmMessages_NewMessageFirst(systemPrompt, history, userMessage) ==
    <<Msg("system", systemPrompt), Msg("user", userMessage)>> \o history

\* messages: [{role:'system',content:SYSTEM_PROMPT}, ...chatHistory, {role:'user',content:userMessage}]
LlmMessages(systemPrompt, history, userMessage) ==
    <<Msg("system", systemPrompt)>> \o history \o <<Msg("user", userMessage)>>

\* the handler up to its first await: the identifier check and the store query
RelayReceive(i) ==
    /\ reqs[i].pc = "sent"
    /\ IF Falsy(reqs[i].body)
       THEN Respond(i, ErrorResponse(400, "Missing Prospect ID"), Settled("none", "none"))
       ELSE reqs' = [reqs EXCEPT ![i].pc = "awaitStore",
                                 ![i].storeCalls = @ + 1]
    /\ UNCHANGED <<prospects, widgetVars>>

\* pool.query resolves: 404, or the text-generation call is issued
StoreReturn(i) ==
    /\ reqs[i].pc = "awaitStore"
    /\ LET body == reqs[i].body
           rows == SelectByUniqueId(prospects, body.prospectId)
       IN  IF Len(rows) = 0
           THEN Respond(i, ErrorResponse(404, "Prospect brain not found"), Settled("store", "resolved"))
           ELSE IF ~Iterable(body)
           THEN Respond(i, CatchResponse, Settled("store", "resolved"))
           ELSE reqs' = [reqs EXCEPT
                    ![i].pc = "awaitLLM",
                    ![i].storeResult = "resolved",
                    ![i].llmCalls = @ + 1,
                    ![i].llmPayload =
                        LlmMessages(rows[1].system_prompt, body.chatHistory, body.userMessage)]
    /\ UNCHANGED <<prospects, widgetVars>>

\* pool.query rejects
StoreFail(i) ==
    /\ reqs[i].pc = "awaitStore"
    /\ Respond(i, CatchResponse, Settled("store", "rejected"))
    /\ UNCHANGED <<prospects, widgetVars>>

\* candidate lists the text-generation service can return
LlmChoices == { <<Str_ok, Str_y>>, <<>> }

\* voices the speech service can return (raw bytes)
TtsBytes == { "XY" }

\* variant: the last candidate is taken instead of the first
LlmReturn_LastCandidate(i, choices) ==
    /\ reqs[i].pc = "awaitLLM"
    /\ IF Len(choices) = 0
       THEN Respond(i, CatchResponse, Settled("llm", "resolved"))
       ELSE reqs' = [reqs EXCEPT
                ![i].pc = "awaitTTS",
                ![i].llmResult = "resolved",
                ![i].llmData = choices,
                ![i].textResponse = choices[Len(choices)],
                ![i].ttsCalls = @ + 1,
                ![i].ttsInput = choices[Len(choices)]]
    /\ UNCHANGED <<prospects, widgetVars>>

\* axios.post(openrouter) resolves: choices[0].message.content, then the speech call
LlmReturn(i, choices) ==
    /\ reqs[i].pc = "awaitLLM"
    /\ IF Len(choices) = 0
       THEN Respond(i, CatchResponse, Settled("llm", "resolved"))
       ELSE reqs' = [reqs EXCEPT
                ![i].pc = "awaitTTS",
                ![i].llmResult = "resolved",
                ![i].llmData = choices,
                ![i].textResponse = choices[1],
                ![i].ttsCalls = @ + 1,
                ![i].ttsInput = choices[1]]
    /\ UNCHANGED <<prospects, widgetVars>>

\* axios.post(openrouter) rejects
LlmFail(i) ==
    /\ reqs[i].pc = "awaitLLM"
    /\ Respond(i, CatchResponse, Settled("llm", "rejected"))
    /\ UNCHANGED <<prospects, widgetVars>>

\* axios.post(elevenlabs) resolves: res.json({ textResponse, audioData })
TtsReturn(i, bytes) ==
    /\ reqs[i].pc = "awaitTTS"
    /\ Respond(i, OkResponse(reqs[i].textResponse, bytes), Settled("tts", "resolved"))
    /\ UNCHANGED <<prospects, widgetVars>>

\* axios.post(elevenlabs) rejects
TtsFail(i) ==
    /\ reqs[i].pc = "awaitTTS"
    /\ Respond(i, CatchResponse, Settled("tts", "rejected"))
    /\ UNCHANGED <<prospects, widgetVars>>

ReqIds == 1..Len(reqs)

----------------------------------------------------------------------------
(* A client other than the widget posts one request with an arbitrary body *)

HistEntries == { Msg("user", Str_hi), Msg("assistant", Str_ok), Msg("user", Str_y) }

RECURSIVE SeqsUpTo(_, _)
SeqsUpTo(S, n) ==
    IF n = 0 THEN { <<>> }
    ELSE LET shorter == SeqsUpTo(S, n - 1)
         IN  shorter \cup { Append(s, e) : s \in { t \in shorter : Len(t) = n - 1 }, e \in S }

AllFields == {"userMessage", "chatHistory", "prospectId"}

ClientBodies ==
    { Body(m, h, p, AllFields) :
        m \in {Str_hi, Str_y}, h \in SeqsUpTo(HistEntries, MaxHist), p \in {"", "p-123", "p-999"} }
    \cup { Body(m, h, "", AllFields \ {"prospectId"}) :
        m \in {Str_hi, Str_y}, h \in SeqsUpTo(HistEntries, MaxHist) }
    \cup { Body(m, <<>>, p, AllFields \ {"chatHistory"}) :
        m \in {Str_hi, Str_y}, p \in {"p-123", "p-999"} }

\* bodies whose chatHistory is a string ("" or "hi") or an object
NonArrayBodies ==
    { NonArrayBody(m, h, p, "string") :
        m \in {Str_hi, Str_y}, h \in {<<>>, Str_hi}, p \in {"p-123", "p-999"} }
    \cup { NonArrayBody(m, <<>>, p, "object") :
        m \in {Str_hi, Str_y}, p \in {"p-123", "p-999"} }

ClientPost ==
    /\ reqs = <<>>
    /\ \/ \E body \in ClientBodies : reqs' = <<NewReq("client", body)>>
       \/ \E body \in NonArrayBodies : reqs' = <<NewReq("client", body)>>
    /\ UNCHANGED <<prospects, widgetVars>>

NextRelay ==
    \/ ClientPost
    \/ \E i \in ReqIds : RelayReceive(i)
    \/ \E i \in ReqIds : StoreReturn(i)
    \/ \E i \in ReqIds : StoreFail(i)
    \/ \E i \in ReqIds, choices \in LlmChoices : LlmReturn(i, choices)
    \/ \E i \in ReqIds : LlmFail(i)
    \/ \E i \in ReqIds, bytes \in TtsBytes : TtsReturn(i, bytes)
    \/ \E i \in ReqIds : TtsFail(i)

SpecRelay == Init /\ [][NextRelay]_vars

----------------------------------------------------------------------------
(* Chat widget: public/app.js *)

Str_dots == <<".", ".", ".">>

\* the fixed apology, kept as one token: it is never trimmed or compared by parts
Apology == <<"Sorry, I am having trouble connecting. Please try again.">>

\* addMessageToUI: the element appended to #chat-messages.  owner is the identity
\* of the node: the sendMessage activation that created it (0: static markup).
\* audioData is kept on the element only when a replay button is attached.
AddMessageToUI(log, message, sender, audioData, isLoading, owner) ==
    Append(log, [sender |-> sender, text |-> message, loading |-> isLoading,
                 audioData |-> IF sender = "ai" /\ audioData # <<>> THEN audioData ELSE <<>>,
                 owner |-> owner])

\* the node returned by addMessageToUI('...', 'ai', null, true) in activation c
IsLoadingEl(el, c) == el.loading /\ el.owner = c

\* loadingEl.parentNode === chatMessages
IsChild(log, c) == \E k \in 1..Len(log) : IsLoadingEl(log[k], c)

\* variant: every loading element is removed, whichever activation made it
RemoveChild_All(log, c) == SelectSeq(log, LAMBDA el : ~el.loading)

\* chatMessages.removeChild(loadingEl)
RemoveChild(log, c) == SelectSeq(log, LAMBDA el : ~IsLoadingEl(el, c))

\* variant: the current instance is not paused
PlayAudioInstances_NoPause(list, current, audioData) ==
    Append(list, [src |-> audioData, state |-> "playing"])

\* playAudio: the new list of Audio instances
PlayAudioInstances(list, current, audioData) ==
    Append(IF current # 0 THEN [list EXCEPT ![current].state = "paused"] ELSE list,
           [src |-> audioData, state |-> "playing"])

\* playAudio(audioData)
PlayAudio(audioData) ==
    /\ audios' = PlayAudioInstances(audios, currentAudio, audioData)
    /\ currentAudio' = Len(audios) + 1

\* the catch block of sendMessage
CatchLog(log, c) ==
    AddMessageToUI(IF IsChild(log, c) THEN RemoveChild(log, c) ELSE log,
                   Apology, "ai", <<>>, FALSE, c)

\* variant: the catch block takes the last entry back
CatchHistory_Rollback(history) ==
    IF history = <<>> THEN history ELSE SubSeq(history, 1, Len(history) - 1)

\* the transcript after the catch block of sendMessage, which does not touch it
CatchHistory(history) == history

\* the visitor edits #chat-input (bounded with the turns: no typing after the last one)
TypeInput(v) ==
    /\ Len(calls) < MaxTurns
    /\ v # chatInput
    /\ chatInput' = v
    /\ UNCHANGED <<prospects, reqs, chatHistory, chatMessages, calls, audios, currentAudio>>

\* variant: the guard is missing
Accepts_Any(userMessage) == TRUE

\* whether sendMessage goes past its guard
Accepts(userMessage) == userMessage # <<>>

\* variant: the optimistic append is missing
PushUser_Skip(history, userMessage) == history

\* the transcript after chatHistory.push({ role: 'user', content: userMessage })
PushUser(history, userMessage) == Append(history, Msg("user", userMessage))

\* variant: the transcript is serialised as it was before the push
FetchBody_BeforePush(userMessage, history) ==
    Body(userMessage, SubSeq(history, 1, Len(history) - 1), prospectId, AllFields)

\* the body JSON.stringify serialises when fetch is called
FetchBody(userMessage, history) == Body(userMessage, history, prospectId, AllFields)

\* sendMessage up to its first await
SendMessage ==
    LET userMessage == Trim(chatInput)
        c == Len(calls) + 1
    IN  IF ~Accepts(userMessage)
        THEN UNCHANGED vars
        ELSE /\ Len(calls) < MaxTurns
             /\ chatMessages' =
                    AddMessageToUI(
                        AddMessageToUI(chatMessages, userMessage, "user", <<>>, FALSE, c),
                        Str_dots, "ai", <<>>, TRUE, c)
             /\ chatInput' = <<>>
             /\ chatHistory' = PushUser(chatHistory, userMessage)
             /\ reqs' = Append(reqs, NewReq("widget", FetchBody(userMessage, chatHistory')))
             /\ calls' = Append(calls, [userMessage |-> userMessage, pc |-> "awaitFetch",
                                        outcome |-> "pending", req |-> Len(reqs) + 1])
             /\ UNCHANGED <<prospects, audios, currentAudio>>

\* sendButton 'click'
SendButtonClick == SendMessage

\* chatInput 'keypress'
KeyPress(key, shiftKey) ==
    IF key = "Enter" /\ ~shiftKey THEN SendMessage ELSE UNCHANGED vars

CallIds == 1..Len(calls)

\* variant: the status of the response is not looked at
Ok_Unchecked(response) == TRUE

\* response.ok
Ok(response) == response.status >= 200 /\ response.status <= 299

\* fetch resolves: placeholder removed, then the status check
FetchResolve(c) ==
    /\ calls[c].pc = "awaitFetch"
    /\ reqs[calls[c].req].pc = "responded"
    /\ LET response == reqs[calls[c].req].response
           log == RemoveChild(chatMessages, c)
       IN  IF ~Ok(response)
           THEN /\ chatMessages' = CatchLog(log, c)
                /\ chatHistory' = CatchHistory(chatHistory)
                /\ calls' = [calls EXCEPT ![c].pc = "done", ![c].outcome = "failed"]
           ELSE /\ chatMessages' = log
                /\ chatHistory' = chatHistory
                /\ calls' = [calls EXCEPT ![c].pc = "awaitJson"]
    /\ reqs' = [reqs EXCEPT ![calls[c].req].pc = "delivered"]
    /\ UNCHANGED <<prospects, chatInput, audios, currentAudio>>

\* fetch rejects (network failure): the request never reaches the relay
FetchReject(c) ==
    /\ calls[c].pc = "awaitFetch"
    /\ reqs[calls[c].req].pc = "sent"
    /\ chatMessages' = CatchLog(chatMessages, c)
    /\ calls' = [calls EXCEPT ![c].pc = "done", ![c].outcome = "failed"]
    /\ chatHistory' = CatchHistory(chatHistory)
    /\ reqs' = [reqs EXCEPT ![calls[c].req].pc = "lost"]
    /\ UNCHANGED <<prospects, chatInput, audios, currentAudio>>

\* response.json() resolves: reply rendered, transcript extended, audio played
JsonResolve(c) ==
    /\ calls[c].pc = "awaitJson"
    /\ LET response == reqs[calls[c].req].response
       IN  /\ chatMessages' = AddMessageToUI(chatMessages, response.textResponse, "ai",
                                             response.audioData, FALSE, c)
           /\ chatHistory' = Append(chatHistory, Msg("assistant", response.textResponse))
           /\ PlayAudio(response.audioData)
    /\ calls' = [calls EXCEPT ![c].pc = "done", ![c].outcome = "replied"]
    /\ UNCHANGED <<prospects, reqs, chatInput>>

\* response.json() rejects (the body cannot be read or parsed)
JsonReject(c) ==
    /\ calls[c].pc = "awaitJson"
    /\ chatMessages' = CatchLog(chatMessages, c)
    /\ chatHistory' = CatchHistory(chatHistory)
    /\ calls' = [calls EXCEPT ![c].pc = "done", ![c].outcome = "failed"]
    /\ UNCHANGED <<prospects, reqs, chatInput, audios, currentAudio>>

\* Audio instances the model lets the page create: one per turn and one replay
MaxAudios == MaxTurns + 1

\* playBtn.onclick of the k-th element of the log
ReplayClick(k) ==
    /\ chatMessages[k].audioData # <<>>
    /\ Len(audios) < MaxAudios
    /\ PlayAudio(chatMessages[k].audioData)
    /\ UNCHANGED <<prospects, reqs, chatInput, chatHistory, chatMessages, calls>>

\* an Audio instance plays to its end
AudioEnded(a) ==
    /\ audios[a].state = "playing"
    /\ audios' = [audios EXCEPT ![a].state = "ended"]
    /\ UNCHANGED <<prospects, reqs, chatInput, chatHistory, chatMessages, calls, currentAudio>>

Next ==
    \/ \E v \in Inputs : TypeInput(v)
    \/ SendButtonClick
    \/ \E key \in {"Enter"}, shiftKey \in BOOLEAN : KeyPress(key, shiftKey)
    \/ \E c \in CallIds : FetchResolve(c)
    \/ \E c \in CallIds : FetchReject(c)
    \/ \E c \in CallIds : JsonResolve(c)
    \/ \E c \in CallIds : JsonReject(c)
    \/ \E k \in 1..Len(chatMessages) : ReplayClick(k)
    \/ \E a \in 1..Len(audios) : AudioEnded(a)
    \/ \E i \in ReqIds : RelayReceive(i)
    \/ \E i \in ReqIds : StoreReturn(i)
    \/ \E i \in ReqIds : StoreFail(i)
    \/ \E i \in ReqIds, choices \in LlmChoices : LlmReturn(i, choices)
    \/ \E i \in ReqIds : LlmFail(i)
    \/ \E i \in ReqIds, bytes \in TtsBytes : TtsReturn(i, bytes)
    \/ \E i \in ReqIds : TtsFail(i)

Spec == Init /\ [][Next]_vars

----------------------------------------------------------------------------
(* Properties of the relay, checked under SpecRelay (one request, any body) *)

\* the stored prompt of the prospect a request names
StoredPrompt(uid) ==
    prospects[CHOOSE k \in 1..Len(prospects) : prospects[k].unique_id = uid].system_prompt

IsStored(uid) == \E k \in 1..Len(prospects) : prospects[k].unique_id = uid

IdAbsentOrEmpty(body) == "prospectId" \notin body.has \/ body.prospectId = ""

HasTranscript(body) == "chatHistory" \in body.has

\* C1: for a request that names an existing prospect and carries a transcript of N
\* entries, the sequence passed to the text-generation call has N+2 entries: the
\* system entry with the stored prompt, the N entries in order, the new user entry.
C1_PayloadIsPromptTranscriptMessage ==
    \A i \in ReqIds :
        LET r == reqs[i]
            n == Len(r.body.chatHistory)
        IN  (r.llmCalls > 0 /\ HasTranscript(r.body) /\ IsStored(r.body.prospectId)) =>
                /\ Len(r.llmPayload) = n + 2
                /\ r.llmPayload[1] = Msg("system", StoredPrompt(r.body.prospectId))
                /\ \A k \in 1..n : r.llmPayload[k + 1] = r.body.chatHistory[k]
                /\ r.llmPayload[n + 2] = Msg("user", r.body.userMessage)

\* a request with a two-entry transcript of distinct entries reached the text call
C1_Witness ==
    \E i \in ReqIds :
        /\ reqs[i].body.historyType = "array"
        /\ reqs[i].llmCalls = 1
        /\ Len(reqs[i].body.chatHistory) = 2
        /\ reqs[i].body.chatHistory[1] # reqs[i].body.chatHistory[2]
        /\ reqs[i].body.chatHistory[2] # Msg("user", reqs[i].body.userMessage)

\* C3: a request whose prospect identifier is absent or empty is answered 400 with
\* an error body, and makes no store, text-generation or speech-synthesis call.
C3_MissingIdIs400WithoutCalls ==
    \A i \in ReqIds :
        LET r == reqs[i]
        IN  IdAbsentOrEmpty(r.body) =>
                /\ r.storeCalls = 0 /\ r.llmCalls = 0 /\ r.ttsCalls = 0
                /\ r.pc \in {"sent", "responded"}
                /\ r.pc = "responded" =>
                      (r.response.status = 400 /\ r.response.error # ""
                       /\ r.response.textResponse = <<>>)

\* a request whose identifier is the empty string was answered
C3_Witness ==
    \E i \in ReqIds :
        /\ "prospectId" \in reqs[i].body.has
        /\ reqs[i].body.prospectId = ""
        /\ reqs[i].pc = "responded"

\* a request with no prospectId field at all was answered
C3_WitnessAbsent ==
    \E i \in ReqIds : "prospectId" \notin reqs[i].body.has /\ reqs[i].pc = "responded"

UnknownId(body) == ~IdAbsentOrEmpty(body) /\ ~IsStored(body.prospectId)

\* C4 as stated: a request whose identifier matches no stored prospect is answered
\* 404 after exactly one store lookup, with no text or speech call.
C4_UnknownIdIs404 ==
    \A i \in ReqIds :
        LET r == reqs[i]
        IN  (UnknownId(r.body) /\ r.pc = "responded") =>
                /\ r.response.status = 404
                /\ r.storeCalls = 1 /\ r.llmCalls = 0 /\ r.ttsCalls = 0

\* C4 amended: such a request makes exactly one store lookup and no text or speech
\* call; it is answered 404 when the lookup returns and 500 when the lookup fails.
C4_UnknownIdIs404UnlessStoreFails ==
    \A i \in ReqIds :
        LET r == reqs[i]
        IN  UnknownId(r.body) =>
                /\ r.llmCalls = 0 /\ r.ttsCalls = 0 /\ r.storeCalls <= 1
                /\ r.pc = "responded" =>
                      /\ r.storeCalls = 1
                      /\ r.storeResult = "resolved" => r.response.status = 404
                      /\ r.storeResult = "rejected" => r.response.status = 500
                      /\ r.storeResult # "none"
                      /\ r.response.error # ""

\* an unknown identifier was looked up, the lookup returned, and 404 was sent
C4_Witness ==
    \E i \in ReqIds :
        /\ UnknownId(reqs[i].body)
        /\ reqs[i].storeResult = "resolved"
        /\ reqs[i].response.status = 404

----------------------------------------------------------------------------
(* Properties of the widget with the relay behind it, checked under Spec *)

ReqOf(c) == reqs[calls[c].req]

UserEntries(history) == SelectSeq(history, LAMBDA e : e.role = "user")

AssistantEntries(history) == SelectSeq(history, LAMBDA e : e.role = "assistant")

NumReplied == Cardinality({c \in CallIds : calls[c].outcome = "replied"})

\* C2 as stated: on a fresh page of the prospect with prompt "You sell widgets.",
\* sending "hi" makes the text-generation payload exactly [system prompt, user "hi"]:
\* the new visitor message occurs once.
C2_FirstTurnPayloadIsPromptAndMessage ==
    \A c \in CallIds :
        (c = 1 /\ calls[c].userMessage = Str_hi /\ ReqOf(c).llmCalls > 0) =>
            ReqOf(c).llmPayload = <<Msg("system", Prompt_widgets), Msg("user", Str_hi)>>

\* C5: when the text-generation call of a turn succeeded and its speech call failed,
\* the relay's answer is a 500 error without the reply text or audio, the widget
\* shows no reply for the turn and the transcript gets no assistant entry for it.
C5_SpeechFailureFailsTheTurn ==
    /\ \A c \in CallIds :
          LET r == ReqOf(c)
          IN  (r.llmResult = "resolved" /\ r.ttsResult = "rejected") =>
                  /\ r.response.status = 500
                  /\ r.response.error # ""
                  /\ r.response.textResponse = <<>>
                  /\ r.response.audioData = <<>>
                  /\ \A k \in 1..Len(chatMessages) :
                        (chatMessages[k].owner = c /\ chatMessages[k].sender = "ai") =>
                            /\ chatMessages[k].loading \/ chatMessages[k].text = Apology
                            /\ chatMessages[k].audioData = <<>>
    /\ Len(AssistantEntries(chatHistory)) <=
          Cardinality({c \in CallIds :
              ReqOf(c).pc = "delivered" /\ ReqOf(c).response.status = 200})

\* a turn whose text call succeeded and whose speech call failed has been settled
C5_Witness ==
    \E c \in CallIds :
        /\ ReqOf(c).llmResult = "resolved"
        /\ ReqOf(c).textResponse = Str_ok
        /\ ReqOf(c).ttsResult = "rejected"
        /\ calls[c].pc = "done"

\* C6 as stated: a failed turn leaves no entry in the transcript; so when every
\* turn so far has failed, the transcript is empty.
C6_FailedTurnsLeaveNoEntry ==
    (calls # <<>> /\ \A c \in CallIds : calls[c].outcome = "failed") => chatHistory = <<>>

\* C6 amended: a failed turn adds no assistant entry, and its visitor entry stays:
\* the visitor entries of the transcript are the messages of all accepted sends in
\* order, and every request carries the visitor entries of all turns up to its own.
C6_FailedTurnKeepsVisitorEntry ==
    /\ Len(AssistantEntries(chatHistory)) = NumReplied
    /\ Len(UserEntries(chatHistory)) = Len(calls)
    /\ \A c \in CallIds :
          /\ UserEntries(chatHistory)[c] = Msg("user", calls[c].userMessage)
          /\ UserEntries(ReqOf(c).body.chatHistory) =
                [k \in 1..c |-> Msg("user", calls[k].userMessage)]

\* a turn failed and a later turn sent its request
C6_Witness ==
    /\ Len(calls) = 2
    /\ calls[1].outcome = "failed"
    /\ calls[2].pc = "awaitFetch"
    /\ calls[1].userMessage # calls[2].userMessage

IsBlank(s) == \A k \in 1..Len(s) : s[k] = " "

\* C7: a send (click or Enter) while the input is empty or whitespace-only issues
\* no request and leaves the transcript and the visible log as they are.
C7_BlankSendChangesNothing ==
    [][(IsBlank(chatInput)
        /\ (SendButtonClick \/ \E shiftKey \in BOOLEAN : KeyPress("Enter", shiftKey)))
       => UNCHANGED <<reqs, calls, chatHistory, chatMessages>>]_vars

\* the input holds only whitespace while the page already has a turn in its log
C7_Witness ==
    /\ chatInput = Str_blank
    /\ Len(calls) = 1

\* C8 as stated: at most one /chat request of the page is in flight
C8_AtMostOneRequestInFlight ==
    Cardinality({c \in CallIds : calls[c].pc = "awaitFetch"}) <= 1

Playing == {a \in 1..Len(audios) : audios[a].state = "playing"}

\* C9: at most one Audio instance is playing, and it is the one currentAudio
\* refers to: every instance that was replaced has been stopped.
C9_AtMostOneAudioPlaying ==
    /\ Cardinality(Playing) <= 1
    /\ \A a \in Playing : a = currentAudio

\* a playing instance was replaced: it is paused and the new one plays
C9_Witness ==
    /\ Len(audios) >= 2
    /\ audios[currentAudio].state = "playing"
    /\ \E a \in 1..Len(audios) : a # currentAudio /\ audios[a].state = "paused"

\* C10: the transcript has one visitor entry per accepted send and one assistant
\* entry, with the returned text, per successful reply; a step appends at most the
\* entries of one handler and never removes or rewrites an entry.
C10_TranscriptGrowsByAppendOnly ==
    /\ [](/\ Len(chatHistory) = Len(calls) + NumReplied
          /\ Len(UserEntries(chatHistory)) = Len(calls)
          /\ \A k \in 1..Len(chatHistory) :
                chatHistory[k].role = "assistant" =>
                    \E c \in CallIds :
                        /\ calls[c].outcome = "replied"
                        /\ chatHistory[k].content = ReqOf(c).response.textResponse)
    /\ [][\/ chatHistory' = chatHistory
          \/ /\ Len(calls') = Len(calls) + 1
             /\ chatHistory' = Append(chatHistory, Msg("user", calls'[Len(calls')].userMessage))
          \/ \E c \in CallIds :
                /\ calls[c].pc = "awaitJson"
                /\ calls'[c].outcome = "replied"
                /\ chatHistory' =
                      Append(chatHistory, Msg("assistant", ReqOf(c).response.textResponse))]_vars

\* two turns, one answered and one failed: three entries
C10_Witness ==
    /\ Len(calls) = 2
    /\ NumReplied = 1
    /\ \E c \in CallIds : calls[c].outcome = "failed"
    /\ Len(chatHistory) = 3

----------------------------------------------------------------------------
(* Further properties of the relay, checked under SpecRelay *)

Answered(r) == r.pc \in {"responded", "delivered", "lost"}

\* C11: within a turn the relay calls the store, then the text service, then the
\* speech service: each at most once, the text call only after the lookup returned,
\* the speech call only after the text call returned, with the text of the first
\* returned candidate as its input; once the turn is answered no call is made.
C11_CallsInOrderOnceEach ==
    /\ [](\A i \in ReqIds :
            LET r == reqs[i]
            IN  /\ r.storeCalls <= 1 /\ r.llmCalls <= 1 /\ r.ttsCalls <= 1
                /\ r.llmCalls > 0 => (r.storeCalls = 1 /\ r.storeResult = "resolved")
                /\ r.ttsCalls > 0 =>
                      /\ r.llmCalls = 1
                      /\ r.llmResult = "resolved"
                      /\ r.llmData # <<>>
                      /\ r.ttsInput = r.llmData[1]
                /\ r.pc = "awaitStore" => (r.llmCalls = 0 /\ r.ttsCalls = 0)
                /\ r.pc = "awaitLLM" => r.ttsCalls = 0)
    /\ [][\A i \in ReqIds :
            /\ Answered(reqs[i]) =>
                  /\ reqs'[i].storeCalls = reqs[i].storeCalls
                  /\ reqs'[i].llmCalls = reqs[i].llmCalls
                  /\ reqs'[i].ttsCalls = reqs[i].ttsCalls
            /\ reqs'[i].ttsCalls > reqs[i].ttsCalls =>
                  (reqs[i].pc = "awaitLLM" /\ reqs'[i].llmResult = "resolved")
            /\ reqs'[i].llmCalls > reqs[i].llmCalls => reqs[i].pc = "awaitStore"]_vars

\* the speech call was issued after a text call that returned two distinct candidates
C11_Witness ==
    \E i \in ReqIds :
        /\ reqs[i].ttsCalls = 1
        /\ Len(reqs[i].llmData) = 2
        /\ reqs[i].llmData[1] # reqs[i].llmData[2]
        /\ reqs[i].ttsInput = Str_ok


FixedErrorBody == "Failed to get AI response"

\* the failures of a turn that do not depend on the transcript
CallFailed(r) ==
    \/ r.storeResult = "rejected"
    \/ r.llmResult = "rejected"
    \/ r.llmResult = "resolved" /\ r.llmData = <<>>
    \/ r.ttsResult = "rejected"

\* the one generic answer: 500, the fixed body, no reply text, no audio, sent once
GenericFailure(r) ==
    /\ r.responses = 1
    /\ r.response.status = 500
    /\ r.response.error = FixedErrorBody
    /\ r.response.textResponse = <<>>
    /\ r.response.audioData = <<>>

----------------------------------------------------------------------------
(* Landing page and admin routes: app.get('/'), app.get('/admin'),          *)
(* app.post('/admin/create').  Their requests are kept in reqs; the widget  *)
(* is not involved.                                                         *)

\* process.env.ADMIN_USERNAME, process.env.ADMIN_PASSWORD
AdminUsername == "admin"
AdminPassword == "secret"

\* what basic-auth reads from the Authorization header (present = FALSE: none)
Creds(present, name, pass) == [present |-> present, name |-> name, pass |-> pass]

CredsSent ==
    { Creds(FALSE, "", ""), Creds(TRUE, "admin", "secret"),
      Creds(TRUE, "admin", "guess"), Creds(TRUE, "root", "secret") }

\* variant: the password is not compared
Authorized_NameOnly(creds) == creds.present /\ creds.name = AdminUsername

\* checkAuth lets the request through
Authorized(creds) ==
    creds.present /\ creds.name = AdminUsername /\ creds.pass = AdminPassword

Name_Acme == <<"A", "c", "m", "e">>
Name_Bolt == <<"B", "o", "l", "t", "&", "C", "o">>

\* names typed into the creation form
FormNames == {Name_Acme, Name_Bolt}

\* uuidv4(): a fresh identifier for each creation request
Uuids == <<"u-1", "u-2", "u-3", "u-4", "u-5">>

\* ejs <%= %>: the characters & < > " ' become entities
EscapeChar(c) ==
    IF c = "&" THEN "&amp;"
    ELSE IF c = "<" THEN "&lt;"
    ELSE IF c = ">" THEN "&gt;"
    ELSE IF c = "\"" THEN "&#34;"
    ELSE IF c = "'" THEN "&#39;"
    ELSE c

EscapeXML(text) == [k \in 1..Len(text) |-> EscapeChar(text[k])]

NoPage == [view |-> "none"]

SiteResponse(status, text, page) == [status |-> status, text |-> text, page |-> page]

NoSiteResponse == SiteResponse(0, "", NoPage)

\* res.render('demo', { prospectName, prospectId }): the two places of
\* views/demo.ejs that depend on the prospect; an identifier that matched a row is
\* one made by uuidv4, in which there is no character to escape
DemoPage(prospectName, id) ==
    [view |-> "demo", heading |-> EscapeXML(prospectName), dataProspectId |-> id]

\* res.render('admin_dashboard', { prospects, baseUrl }): one item per row
DashboardPage(rows) ==
    [view |-> "admin_dashboard",
     items |-> [k \in 1..Len(rows) |->
                  [name |-> EscapeXML(rows[k].name), link |-> rows[k].unique_id]]]

NewSiteReq(route) ==
    [route |-> route, hasQuery |-> FALSE, query |-> "", creds |-> Creds(FALSE, "", ""),
     name |-> <<>>, uniqueId |-> "", serial |-> 0, startedAt |-> 0, seen |-> 0,
     pc |-> "sent", storeReads |-> 0, storeWrites |-> 0, responses |-> 0,
     response |-> NoSiteResponse]

SiteRespond(r, resp) ==
    [r EXCEPT !.pc = "responded", !.response = resp, !.responses = @ + 1]

\* res.setHeader('WWW-Authenticate', ...); res.status(401).send('Access denied')
AccessDenied(r) == SiteRespond(r, SiteResponse(401, "Access denied", NoPage))

RECURSIVE InsertById(_, _)
InsertById(row, sorted) ==
    IF sorted = <<>> THEN <<row>>
    ELSE IF row.id > Head(sorted).id THEN <<row>> \o sorted
    ELSE <<Head(sorted)>> \o InsertById(row, Tail(sorted))

RECURSIVE OrderByIdDesc_Asc(_)
\* variant: ORDER BY id (ascending)
OrderByIdDesc_Asc(table) ==
    IF table = <<>> THEN <<>>
    ELSE LET rest == OrderByIdDesc_Asc(Tail(table))
             row == Head(table)
         IN  SelectSeq(rest, LAMBDA x : x.id < row.id) \o <<row>>
             \o SelectSeq(rest, LAMBDA x : x.id > row.id)

RECURSIVE OrderByIdDesc(_)
\* SELECT * FROM prospects ORDER BY id DESC
OrderByIdDesc(table) ==
    IF table = <<>> THEN <<>> ELSE InsertById(Head(table), OrderByIdDesc(Tail(table)))

\* variant: the handler does not test the identifier before the lookup
NoQuery_Never(r) == r.hasQuery /\ ~r.hasQuery

\* !prospectId for req.query.prospect
NoQuery(r) == ~r.hasQuery \/ r.query = ""

\* identifiers a visitor can put into the link: one generated by a creation
\* request (whether or not its row was stored) or one never generated
QueriesSent == {reqs[i].uniqueId : i \in {j \in 1..Len(reqs) : reqs[j].uniqueId # ""}} \cup {"p-999"}

\* GET /: the handler up to its first await
LandingRequest(hasQuery, query) ==
    /\ Len(reqs) < MaxSite
    /\ LET r == [NewSiteReq("GET /") EXCEPT !.hasQuery = hasQuery, !.query = query]
       IN  reqs' = Append(reqs,
              IF NoQuery(r)
              THEN SiteRespond(r, SiteResponse(404,
                       "Prospect not found. Please use a valid demo link.", NoPage))
              ELSE [r EXCEPT !.pc = "awaitSelect", !.storeReads = @ + 1])
    /\ UNCHANGED <<prospects, widgetVars>>

\* GET /: pool.query resolves
LandingSelectReturn(i) ==
    /\ reqs[i].route = "GET /"
    /\ reqs[i].pc = "awaitSelect"
    /\ LET rows == SelectByUniqueId(prospects, reqs[i].query)
           at == [reqs[i] EXCEPT !.seen = Len(prospects)]
       IN  reqs' = [reqs EXCEPT ![i] =
              IF Len(rows) = 0
              THEN SiteRespond(at, SiteResponse(404, "Prospect not found.", NoPage))
              ELSE SiteRespond(at, SiteResponse(200, "",
                                   DemoPage(rows[1].name, rows[1].unique_id)))]
    /\ UNCHANGED <<prospects, widgetVars>>

\* GET / and GET /admin: pool.query rejects
SelectFail(i) ==
    /\ reqs[i].pc = "awaitSelect"
    /\ reqs' = [reqs EXCEPT ![i] =
          SiteRespond([@ EXCEPT !.seen = Len(prospects)],
                      SiteResponse(500, "Server error", NoPage))]
    /\ UNCHANGED <<prospects, widgetVars>>

\* GET /admin: checkAuth, then the handler up to its first await
AdminRequest(creds) ==
    /\ Len(reqs) < MaxSite
    /\ LET r == [NewSiteReq("GET /admin") EXCEPT !.creds = creds]
       IN  reqs' = Append(reqs,
              IF ~Authorized(creds)
              THEN AccessDenied(r)
              ELSE [r EXCEPT !.pc = "awaitSelect", !.storeReads = @ + 1])
    /\ UNCHANGED <<prospects, widgetVars>>

\* GET /admin: pool.query resolves with the rows committed so far
AdminSelectReturn(i) ==
    /\ reqs[i].route = "GET /admin"
    /\ reqs[i].pc = "awaitSelect"
    /\ reqs' = [reqs EXCEPT ![i] =
          SiteRespond([@ EXCEPT !.seen = Len(prospects)],
                      SiteResponse(200, "", DashboardPage(OrderByIdDesc(prospects))))]
    /\ UNCHANGED <<prospects, widgetVars>>

NumCreates == Cardinality({i \in 1..Len(reqs) : reqs[i].uniqueId # ""})

\* POST /admin/create: checkAuth, then the handler up to its first await
CreateRequest(creds, name) ==
    /\ Len(reqs) < MaxSite
    /\ LET r == [NewSiteReq("POST /admin/create") EXCEPT !.creds = creds, !.name = name]
       IN  reqs' = Append(reqs,
              IF ~Authorized(creds)
              THEN AccessDenied(r)
              ELSE [r EXCEPT !.pc = "awaitInsert", !.storeWrites = @ + 1,
                             !.uniqueId = Uuids[NumCreates + 1],
                             !.startedAt = Len(prospects)])
    /\ UNCHANGED <<prospects, widgetVars>>

\* nextval of the sequence behind id SERIAL: values handed out are never reused
NextSerial == Cardinality({i \in 1..Len(reqs) : reqs[i].serial # 0}) + 1

\* the INSERT starts to execute: the row's id is drawn from the sequence
InsertExecute(i) ==
    /\ reqs[i].pc = "awaitInsert"
    /\ reqs[i].serial = 0
    /\ reqs' = [reqs EXCEPT ![i].serial = NextSerial]
    /\ UNCHANGED <<prospects, widgetVars>>

\* the INSERT commits and pool.query resolves: res.redirect('/admin')
InsertCommit(i) ==
    /\ reqs[i].pc = "awaitInsert"
    /\ reqs[i].serial # 0
    /\ prospects' = Append(prospects,
          [id |-> reqs[i].serial, name |-> reqs[i].name,
           system_prompt |-> Prompt_widgets, unique_id |-> reqs[i].uniqueId])
    /\ reqs' = [reqs EXCEPT ![i] = SiteRespond(@, SiteResponse(302, "/admin", NoPage))]
    /\ UNCHANGED widgetVars

\* the INSERT fails and pool.query rejects
InsertFail(i) ==
    /\ reqs[i].pc = "awaitInsert"
    /\ reqs' = [reqs EXCEPT ![i] =
          SiteRespond(@, SiteResponse(500, "Error creating prospect", NoPage))]
    /\ UNCHANGED <<prospects, widgetVars>>

\* the table after initializeDatabase, before any prospect is created
InitSite ==
    /\ prospects = <<>>
    /\ reqs = <<>>
    /\ chatInput = <<>>
    /\ chatHistory = <<>>
    /\ chatMessages = <<>>
    /\ calls = <<>>
    /\ audios = <<>>
    /\ currentAudio = 0

NextSite ==
    \/ LandingRequest(FALSE, "")
    \/ \E query \in QueriesSent : LandingRequest(TRUE, query)
    \/ \E i \in ReqIds : LandingSelectReturn(i)
    \/ \E i \in ReqIds : SelectFail(i)
    \/ \E creds \in CredsSent : AdminRequest(creds)
    \/ \E i \in ReqIds : AdminSelectReturn(i)
    \/ \E creds \in CredsSent, name \in FormNames : CreateRequest(creds, name)
    \/ \E i \in ReqIds : InsertExecute(i)
    \/ \E i \in ReqIds : InsertCommit(i)
    \/ \E i \in ReqIds : InsertFail(i)

SpecSite == InitSite /\ [][NextSite]_vars

----------------------------------------------------------------------------
(* Claims about the landing page and the admin routes (SpecSite)            *)

\* what the browser shows for escaped text: entities are decoded
DecodeEntity(e) ==
    IF e = "&amp;" THEN "&"
    ELSE IF e = "&lt;" THEN "<"
    ELSE IF e = "&gt;" THEN ">"
    ELSE IF e = "&#34;" THEN "\""
    ELSE IF e = "&#39;" THEN "'"
    ELSE e

BrowserText(html) == [k \in 1..Len(html) |-> DecodeEntity(html[k])]

LandingAnswered(r) == r.route = "GET /" /\ r.pc = "responded"

Rendered(r) == r.response.page.view = "demo"

\* rows stored when the request's lookup settled that carry the identifier of
\* the request
StoredFor(r) ==
    {k \in 1..r.seen : r.hasQuery /\ prospects[k].unique_id = r.query}

\* the page shows the prospect's name and embeds the identifier of the link
ShowsProspect(r) ==
    /\ r.response.status = 200
    /\ r.response.page.dataProspectId = r.query
    /\ \E k \in StoredFor(r) : BrowserText(r.response.page.heading) = prospects[k].name

NotFoundNoPage(r) == r.response.status = 404 /\ r.response.page = NoPage

\* C13 (as stated): GET / renders a page if and only if the prospect query
\* parameter equals the identifier of a stored prospect, and then the page shows
\* that prospect's display name and embeds exactly that identifier; an absent
\* identifier yields 404 without any store lookup and an unknown identifier
\* yields 404, in both cases with no page rendered.
C13_PageIffStoredId ==
    \A i \in ReqIds : LET r == reqs[i] IN
        LandingAnswered(r) =>
            /\ Rendered(r) <=> StoredFor(r) # {}
            /\ Rendered(r) => ShowsProspect(r)
            /\ ~r.hasQuery => NotFoundNoPage(r) /\ r.storeReads = 0
            /\ (r.hasQuery /\ StoredFor(r) = {}) => NotFoundNoPage(r)

\* C13 (amended): a page is rendered only for the identifier of a stored
\* prospect, and it shows that prospect's name and embeds that identifier; an
\* absent identifier yields 404 without any store lookup; when the lookup
\* returns, a stored identifier yields the page and an unknown one 404; when the
\* lookup fails the answer is 500 "Server error"; 404 and 500 render no page.
C13_PageIffStoredIdUnlessStoreFails ==
    \A i \in ReqIds : LET r == reqs[i] IN
        /\ (r.route = "GET /" /\ r.pc # "responded") =>
              r.response = NoSiteResponse /\ r.responses = 0
        /\ LandingAnswered(r) =>
            /\ r.responses = 1
            /\ r.response.status \in {200, 404, 500}
            /\ Rendered(r) <=> r.response.status = 200
            /\ Rendered(r) => StoredFor(r) # {} /\ ShowsProspect(r)
            /\ ~Rendered(r) => r.response.page = NoPage
            /\ ~r.hasQuery => NotFoundNoPage(r) /\ r.storeReads = 0
            /\ r.hasQuery => r.storeReads = 1
            /\ r.storeWrites = 0
            /\ r.response.status = 500 => r.hasQuery /\ r.response.text = "Server error"
            /\ (StoredFor(r) # {} /\ r.response.status # 500) => Rendered(r)
            /\ (r.hasQuery /\ StoredFor(r) = {} /\ r.response.status # 500) =>
                  NotFoundNoPage(r)

\* a page rendered for a stored prospect whose name holds a character that the
\* template escapes
C13_Witness ==
    \E i \in ReqIds :
        /\ LandingAnswered(reqs[i])
        /\ Rendered(reqs[i])
        /\ reqs[i].response.page.heading # BrowserText(reqs[i].response.page.heading)
        /\ \E j \in ReqIds : LandingAnswered(reqs[j]) /\ ~reqs[j].hasQuery

AdminRoute(r) == r.route \in {"GET /admin", "POST /admin/create"}

\* the credentials of the request are the configured username and password
CredsMatch(r) ==
    r.creds.present /\ r.creds.name = AdminUsername /\ r.creds.pass = AdminPassword

\* C14: every request to an admin route is checked against the configured
\* username and password on that request alone: without credentials, or with a
\* username or password that does not match, it is answered 401 at once and
\* causes no store read and no store write, whatever requests came before it; a
\* request with matching credentials is never answered 401, and every stored
\* prospect was written by a request with matching credentials.
C14_AdminCheckedOnEveryRequest ==
    /\ \A i \in ReqIds : LET r == reqs[i] IN
          AdminRoute(r) =>
            /\ ~CredsMatch(r) =>
                  /\ r.pc = "responded"
                  /\ r.responses = 1
                  /\ r.response = SiteResponse(401, "Access denied", NoPage)
                  /\ r.storeReads = 0
                  /\ r.storeWrites = 0
                  /\ r.serial = 0
                  /\ r.uniqueId = ""
            /\ CredsMatch(r) =>
                  /\ r.response.status # 401
                  /\ r.storeReads + r.storeWrites = 1
    /\ \A k \in 1..Len(prospects) :
          \E i \in ReqIds :
              /\ reqs[i].route = "POST /admin/create"
              /\ CredsMatch(reqs[i])
              /\ reqs[i].uniqueId = prospects[k].unique_id
              /\ reqs[i].response.status = 302

\* an authorized creation that stored a prospect, followed by requests to both
\* admin routes, one without credentials and one with a wrong password, both
\* answered 401
C14_Witness ==
    /\ Len(reqs) = 3
    /\ Len(prospects) = 1
    /\ reqs[1].route = "POST /admin/create"
    /\ reqs[1].response.status = 302
    /\ reqs[2].route = "GET /admin"
    /\ ~reqs[2].creds.present
    /\ reqs[2].response.status = 401
    /\ reqs[3].route = "POST /admin/create"
    /\ reqs[3].creds = Creds(TRUE, "admin", "guess")
    /\ reqs[3].response.status = 401

\* a dashboard listing that was answered with the page
Listing(r) == r.route = "GET /admin" /\ r.response.status = 200

\* the listing shows the prospect with identifier b above the one with identifier a
ShownBefore(r, b, a) ==
    LET items == r.response.page.items IN
    \E kb, ka \in 1..Len(items) :
        /\ items[kb].link = b
        /\ items[ka].link = a
        /\ kb < ka

\* the creation request that stored row k of the table (rows are kept in the
\* order in which their creations completed)
CreationOf(k) == CHOOSE i \in ReqIds : reqs[i].uniqueId = prospects[k].unique_id

\* every prospect stored when the listing was read is listed once, under its name
ListsAllStored(r) ==
    LET items == r.response.page.items IN
    /\ Len(items) = r.seen
    /\ \A k \in 1..r.seen :
          \E n \in 1..Len(items) :
              /\ items[n].link = prospects[k].unique_id
              /\ BrowserText(items[n].name) = prospects[k].name

\* C15 (as stated): for any two prospects A and B where B's creation completed
\* after A's creation completed, every later dashboard listing contains both and
\* shows B before A.
C15_LaterCompletedListedFirst ==
    \A i \in ReqIds : LET r == reqs[i] IN
        Listing(r) =>
            \A a, b \in 1..r.seen :
                a < b => ShownBefore(r, prospects[b].unique_id, prospects[a].unique_id)

\* C15 (amended): every dashboard listing contains all prospects stored when it
\* was read, in descending order of their serial ids; for any two prospects A
\* and B where B's creation request arrived after A's creation completed, every
\* later listing shows B before A.
C15_LaterStartedListedFirst ==
    \A i \in ReqIds : LET r == reqs[i] IN
        Listing(r) =>
            /\ ListsAllStored(r)
            /\ \A a, b \in 1..r.seen :
                  /\ prospects[a].id < prospects[b].id =>
                        ShownBefore(r, prospects[b].unique_id, prospects[a].unique_id)
                  /\ a <= reqs[CreationOf(b)].startedAt =>
                        ShownBefore(r, prospects[b].unique_id, prospects[a].unique_id)

\* "Acme" is created, then "Bolt&Co" is created, and a later listing shows
\* "Bolt&Co" first
C15_Witness ==
    \E i \in ReqIds :
        /\ Listing(reqs[i])
        /\ reqs[i].seen = 2
        /\ prospects[1].name = Name_Acme
        /\ prospects[2].name = Name_Bolt
        /\ reqs[CreationOf(2)].startedAt = 1
        /\ reqs[i].response.page.items[1].link = prospects[2].unique_id

----------------------------------------------------------------------------
(* Claims about the requests and the placeholders of the widget (Spec)      *)

\* C16: in every /chat request the widget issues, the transcript field of the
\* body is a non-empty array whose last entry is a user entry with the text of
\* the body's userMessage field, which is the trimmed text of that turn; this
\* holds for every turn, also for one sent while an earlier turn is in flight.
C16_TranscriptEndsWithMessageSent ==
    /\ \A c \in CallIds : LET body == ReqOf(c).body IN
          /\ ReqOf(c).origin = "widget"
          /\ {"userMessage", "chatHistory"} \subseteq body.has
          /\ body.historyType = "array"
          /\ body.userMessage = calls[c].userMessage
          /\ body.userMessage # <<>>
          /\ body.chatHistory # <<>>
          /\ body.chatHistory[Len(body.chatHistory)] = Msg("user", body.userMessage)
    /\ \A i \in ReqIds : \E c \in CallIds : calls[c].req = i

\* the second turn was sent while the first was still in flight, after the
\* visitor entry of the first turn was appended
C16_Witness ==
    /\ Len(calls) = 2
    /\ calls[1].pc = "awaitFetch"
    /\ Len(ReqOf(2).body.chatHistory) = 2
    /\ ReqOf(2).body.chatHistory[2].content = calls[2].userMessage

\* activations whose loading element is in the log
Placeholders == {c \in CallIds : IsChild(chatMessages, c)}

NumLoading == Len(SelectSeq(chatMessages, LAMBDA el : el.loading))

\* turns whose fetch has not settled
InFlight == {c \in CallIds : calls[c].pc = "awaitFetch"}

\* C17: every accepted send adds exactly one loading placeholder to the log,
\* and each turn removes only its own placeholder, once, when its request
\* settles; under any interleaving of overlapping turns the number of
\* placeholders in the log equals the number of requests still in flight, and
\* none remains once all requests have settled.
C17_OnePlaceholderPerRequestInFlight ==
    /\ [](/\ Placeholders = InFlight
          /\ NumLoading = Cardinality(InFlight)
          /\ (InFlight = {} => NumLoading = 0))
    /\ [][/\ Len(calls') > Len(calls) =>
               /\ Len(calls') = Len(calls) + 1
               /\ Placeholders' = Placeholders \cup {Len(calls')}
               /\ NumLoading' = NumLoading + 1
          /\ Len(calls') = Len(calls) =>
               /\ Placeholders' \subseteq Placeholders
               /\ NumLoading - NumLoading' \in {0, 1}
               /\ \A c \in Placeholders \ Placeholders' :
                     calls[c].pc = "awaitFetch" /\ calls'[c].pc # "awaitFetch"]_vars

\* two overlapping turns: the first has settled and its placeholder is gone,
\* the second is in flight and its placeholder is the only one in the log
C17_Witness ==
    /\ Len(calls) = 2
    /\ calls[1].pc = "done"
    /\ calls[2].pc = "awaitFetch"
    /\ Placeholders = {2}
    /\ NumLoading = 1
    /\ \E k, m \in 1..Len(chatMessages) :
          /\ k < m
          /\ chatMessages[k].owner = 2
          /\ chatMessages[m].owner = 1

====
